---------------------------- MODULE Spec2Model ----------------------------
(***************************************************************************)
(* Terrain-aware sunrise / sunset search of mountain_sunset/main.py.       *)
(*                                                                         *)
(* Units.  Instants are whole minutes counted from 00:00 UTC of the target *)
(* date (the code only ever adds or subtracts whole minutes to the instant *)
(* the ephemeris returns).  Angles are hundredths of a degree.  Elevations *)
(* are metres, distances kilometres.  Python's None is the empty sequence  *)
(* and a datetime t is the one-element sequence <<t>>.                     *)
(*                                                                         *)
(* The ephemeris (ephem) and the elevation service (Open-Elevation) are    *)
(* the environment: what they answer is drawn from small sets.             *)
(***************************************************************************)
EXTENDS Integers, Sequences, FiniteSets, TLC

VARIABLES
    mode,               \* config['mode']
    settings,           \* config['settings']
    eph,                \* environment: what the ephemeris says of the day
    terrain,            \* environment: the ground the elevation service knows
    pc,                 \* position of the program
    observer,           \* ephem.Observer: lat, lon, elevation, date
    my_elevation,       \* my_elevation of setup_observer
    standard,           \* standard_sunset / standard_sunrise (an ephem.Date)
    current_check_time, \* locals of the running search
    elapsed,            \* elapsed_rewind / elapsed_forward
    found_time,
    sun_az,
    sun_alt,
    terrain_angle,
    points,             \* locals of get_horizon_elevation_angle
    distances,
    d,                  \* the d of its distance loop, where run pass by pass
    all_results,
    chunk_i,            \* the i of "for i in range(0, len(points), chunk_size)"
    res_rise,           \* what the searches returned to __main__
    res_set,
    results,            \* the results list of __main__
    console,            \* the outcome messages printed by the running search
    printed,            \* the lines __main__ printed between the rules
    h_scan_log,         \* history: the samples of the running search
    h_requests,         \* history: the requests of the running horizon call
    h_calls,            \* history: provider calls made by the running search
    h_ridge_case,       \* history: same horizon angle and falling sun so far
    h_all_failed        \* history: no elevation request has succeeded yet

vars == << mode, settings, eph, terrain, pc, observer, my_elevation, standard,
           current_check_time, elapsed, found_time, sun_az, sun_alt,
           terrain_angle, points, distances, d, all_results, chunk_i,
           res_rise, res_set, results, console, printed, h_scan_log,
           h_requests, h_calls, h_ridge_case, h_all_failed >>

-----------------------------------------------------------------------------
(* Bounds of the environment.                                              *)

\* Ridges of 200 m, 400 m, ... (MaxRidge of them) are among the terrains.
MaxRidge == 2

\* Sun altitudes of 6, 12, ... degrees (MaxSunLevel of them) can be sampled,
\* besides the two at the mathematical horizon.
MaxSunLevel == 2

-----------------------------------------------------------------------------
(* Program constants.                                                      *)

\* chunk_size = 100
chunk_size == 100

\* max_rewind_limit = max_forward_limit = timedelta(minutes=120)
max_limit == 120

\* JST = timezone(timedelta(hours=9)), in minutes
JST == 540

None == << >>

Some(t) == << t >>

-----------------------------------------------------------------------------
(* Inputs.                                                                 *)

Modes == {"sunrise", "sunset", "both"}

\* The settings of config.yaml that are tried: a coarse scan over a short
\* ray, a coarse scan over a ray of three chunks (100 + 100 + 1 points), a
\* ray with no sample point at all (step_km > check_distance_km), and a step
\* as long as the whole budget over such an empty ray.
SettingsSet ==
    { [step_minutes |-> 30,  check_distance_km |-> 3,   step_km |-> 1],
      [step_minutes |-> 50,  check_distance_km |-> 201, step_km |-> 1],
      [step_minutes |-> 50,  check_distance_km |-> 1,   step_km |-> 2],
      [step_minutes |-> 120, check_distance_km |-> 1,   step_km |-> 2] }

\* location of config.yaml (hundredths of a degree)
ConfigLat == 3624

ConfigLon == 13796

\* The day as the ephemeris sees it: the sun rises and sets, or it does not.
\* rise and set are minutes of the UTC day: 20:30 and 08:30 UTC (05:30 and
\* 17:30 JST), or, a winter day far north, 02:30 and 03:30 UTC (11:30 and
\* 12:30 JST), where the two hours after the rising reach past the setting.
EphDays ==
    { [kind |-> "normal",   rise |-> 1230, set |-> 510],
      [kind |-> "normal",   rise |-> 150,  set |-> 210],
      [kind |-> "AlwaysUp", rise |-> 0,    set |-> 0],
      [kind |-> "NeverUp",  rise |-> 0,    set |-> 0] }

Terrains ==
    { [kind |-> "flat", level |-> 0], [kind |-> "below", level |-> 0] }
    \cup { [kind |-> "ridge", level |-> n] : n \in 1..MaxRidge }

\* Bearings along which a ridge terrain has its ridge; along the others it
\* has a gap.
RidgeBearings == {110, 250}

RiseAzimuths == {110, 111}

SetAzimuths == {250, 251}

\* sun.alt at the standard rising or setting instant: the upper limb is on
\* the horizon, so the centre is one solar radius (0.27 degrees) below it.
SunAltAtStandard == {-27}

\* sun.alt at any other sampled instant: centre a radius below the horizon,
\* centre on the horizon, or well above it.
SunAlts == {-27, 0} \cup { 600 * n : n \in 1..MaxSunLevel }

-----------------------------------------------------------------------------
(* The environment's answers.                                              *)

\* observer.next_rising / next_setting: the first daily event after `date`.
NextEvent(daily, date) ==
    CHOOSE t \in { daily + 1440 * n : n \in -2..2 } :
        /\ t > date
        /\ \A u \in { daily + 1440 * n : n \in -2..2 } : u > date => t <= u

\* The elevation the service knows at a point.  The observer stands at
\* 600 m; a "below" terrain lies 100 m under the observer everywhere, a
\* ridge terrain rises 200 m per level, 2 km out, along the ridge bearings.
ElevationAt(t, p) ==
    IF p.distance_km = 0 THEN 600
    ELSE IF t.kind = "below" THEN 500
    ELSE IF /\ t.kind = "ridge"
            /\ p.distance_km = 2
            /\ p.bearing_deg \in RidgeBearings
         THEN 600 + 200 * t.level
    ELSE 600

\* One item of the service's 'results': the point asked and its elevation.
ResultItem(t, p) == [point |-> p, elevation |-> ElevationAt(t, p)]

-----------------------------------------------------------------------------
(* calculate_destination and the arithmetic of the angle.                  *)

\* The destination is kept as the four arguments that determine it: the
\* spherical trigonometry is not evaluated, and nothing below reads a
\* coordinate except the elevation service, which is keyed by the point.
calculate_destination(lat, lon, distance_km, bearing_deg) ==
    [lat |-> lat, lon |-> lon, distance_km |-> distance_km,
     bearing_deg |-> bearing_deg]

\* Whole numbers past 2^31 are kept as their digits to the base 10000,
\* lowest digit first.
Base == 10000

Big(n) == << n % Base, (n \div Base) % Base, n \div (Base * Base) >>

Digit(a, i) == IF i <= Len(a) THEN a[i] ELSE 0

Longer(a, b) == IF Len(a) > Len(b) THEN Len(a) ELSE Len(b)

Reverse(s) == [ n \in 1..Len(s) |-> s[Len(s) + 1 - n] ]

\* The digits of the number whose places hold the (possibly larger) c[i].
RECURSIVE Carried(_, _, _)
Carried(c, i, carry) ==
    IF i > Len(c) /\ carry = 0 THEN << >>
    ELSE LET v == Digit(c, i) + carry
         IN  << v % Base >> \o Carried(c, i + 1, v \div Base)

BigAdd(a, b) ==
    Carried([ i \in 1..Longer(a, b) |-> Digit(a, i) + Digit(b, i) ], 1, 0)

\* The products that fall on place k of a * b, from a[i] on.
RECURSIVE Column(_, _, _, _)
Column(a, b, k, i) ==
    IF i > k \/ i > Len(a) THEN 0
    ELSE Digit(a, i) * Digit(b, k + 1 - i) + Column(a, b, k, i + 1)

BigMul(a, b) ==
    Carried([ k \in 1..(Len(a) + Len(b)) |-> Column(a, b, k, 1) ], 1, 0)

\* a * Base^n
Shifted(a, n) == [ i \in 1..n |-> 0 ] \o a

BigLe(a, b) ==
    \/ \A i \in 1..Longer(a, b) : Digit(a, i) = Digit(b, i)
    \/ \E i \in 1..Longer(a, b) :
           /\ Digit(a, i) < Digit(b, i)
           /\ \A j \in (i + 1)..Longer(a, b) : Digit(a, j) = Digit(b, j)

\* round(10^12 * tan(k degrees)), k = 0 .. 45, highest digit first
TanDegrees ==
    << <<0, 0, 0, 0>>, <<0, 174, 5506, 4928>>, <<0, 349, 2076, 9492>>,
       <<0, 524, 777, 9283>>, <<0, 699, 2681, 1944>>, <<0, 874, 8866, 3526>>,
       <<0, 1051, 423, 5266>>, <<0, 1227, 8456, 903>>,
       <<0, 1405, 4083, 4702>>, <<0, 1583, 8444, 325>>,
       <<0, 1763, 2698, 708>>, <<0, 1943, 8030, 9138>>,
       <<0, 2125, 5656, 1670>>, <<0, 2308, 6819, 1126>>,
       <<0, 2493, 2800, 2843>>, <<0, 2679, 4919, 2431>>,
       <<0, 2867, 4538, 5759>>, <<0, 3057, 3068, 1459>>,
       <<0, 3249, 1969, 6233>>, <<0, 3443, 2761, 3290>>,
       <<0, 3639, 7023, 4266>>, <<0, 3838, 6403, 5035>>,
       <<0, 4040, 2622, 5835>>, <<0, 4244, 7481, 6210>>,
       <<0, 4452, 2868, 5309>>, <<0, 4663, 765, 8155>>,
       <<0, 4877, 3258, 8566>>, <<0, 5095, 2544, 9494>>,
       <<0, 5317, 943, 1661>>, <<0, 5543, 905, 1453>>,
       <<0, 5773, 5026, 9190>>, <<0, 6008, 6061, 9028>>,
       <<0, 6248, 6935, 1909>>, <<0, 6494, 759, 3198>>,
       <<0, 6745, 851, 6842>>, <<0, 7002, 753, 8210>>,
       <<0, 7265, 4252, 8005>>, <<0, 7535, 5405, 103>>,
       <<0, 7812, 8562, 6507>>, <<0, 8097, 8403, 3195>>,
       <<0, 8390, 9963, 1177>>, <<0, 8692, 8673, 7816>>,
       <<0, 9004, 404, 4298>>, <<0, 9325, 1508, 6138>>,
       <<0, 9656, 8877, 4807>>, <<1, 0, 0, 0>> >>

\* round(10^12 * tan(r / 100 degrees)), r = 0 .. 99, highest digit first
TanHundredths ==
    << <<0, 0, 0>>, <<1, 7453, 2927>>, <<3, 4906, 5865>>, <<5, 2359, 8823>>,
       <<6, 9813, 1814>>, <<8, 7266, 4848>>, <<10, 4719, 7934>>,
       <<12, 2173, 1084>>, <<13, 9626, 4309>>, <<15, 7079, 7619>>,
       <<17, 4533, 1024>>, <<19, 1986, 4536>>, <<20, 9439, 8165>>,
       <<22, 6893, 1921>>, <<24, 4346, 5816>>, <<26, 1799, 9859>>,
       <<27, 9253, 4062>>, <<29, 6706, 8435>>, <<31, 4160, 2989>>,
       <<33, 1613, 7734>>, <<34, 9067, 2682>>, <<36, 6520, 7842>>,
       <<38, 3974, 3225>>, <<40, 1427, 8842>>, <<41, 8881, 4704>>,
       <<43, 6335, 821>>, <<45, 3788, 7203>>, <<47, 1242, 3863>>,
       <<48, 8696, 809>>, <<50, 6149, 8053>>, <<52, 3603, 5606>>,
       <<54, 1057, 3477>>, <<55, 8511, 1678>>, <<57, 5965, 220>>,
       <<59, 3418, 9112>>, <<61, 872, 8366>>, <<62, 8326, 7992>>,
       <<64, 5780, 8001>>, <<66, 3234, 8403>>, <<68, 688, 9209>>,
       <<69, 8143, 430>>, <<71, 5597, 2077>>, <<73, 3051, 4159>>,
       <<75, 505, 6688>>, <<76, 7959, 9675>>, <<78, 5414, 3129>>,
       <<80, 2868, 7062>>, <<82, 323, 1484>>, <<83, 7777, 6405>>,
       <<85, 5232, 1838>>, <<87, 2686, 7791>>, <<89, 141, 4276>>,
       <<90, 7596, 1303>>, <<92, 5050, 8883>>, <<94, 2505, 7027>>,
       <<95, 9960, 5745>>, <<97, 7415, 5048>>, <<99, 4870, 4947>>,
       <<101, 2325, 5452>>, <<102, 9780, 6573>>, <<104, 7235, 8322>>,
       <<106, 4691, 709>>, <<108, 2146, 3745>>, <<109, 9601, 7440>>,
       <<111, 7057, 1806>>, <<113, 4512, 6851>>, <<115, 1968, 2588>>,
       <<116, 9423, 9027>>, <<118, 6879, 6179>>, <<120, 4335, 4054>>,
       <<122, 1791, 2662>>, <<123, 9247, 2015>>, <<125, 6703, 2123>>,
       <<127, 4159, 2997>>, <<129, 1615, 4648>>, <<130, 9071, 7085>>,
       <<132, 6528, 320>>, <<134, 3984, 4363>>, <<136, 1440, 9225>>,
       <<137, 8897, 4917>>, <<139, 6354, 1449>>, <<141, 3810, 8832>>,
       <<143, 1267, 7077>>, <<144, 8724, 6193>>, <<146, 6181, 6193>>,
       <<148, 3638, 7085>>, <<150, 1095, 8882>>, <<151, 8553, 1594>>,
       <<153, 6010, 5231>>, <<155, 3467, 9804>>, <<157, 925, 5324>>,
       <<158, 8383, 1801>>, <<160, 5840, 9246>>, <<162, 3298, 7669>>,
       <<164, 756, 7082>>, <<165, 8214, 7494>>, <<167, 5672, 8918>>,
       <<169, 3131, 1362>>, <<171, 589, 4838>>, <<172, 8047, 9357>> >>

\* tan(a / 100 degrees) <= y / x, for 0 <= a <= 4599 and x > 0, y >= 0.
\* With a = 100 * k + r, tan(k + r/100) = (tk + tr) / (1 - tk * tr), so the
\* test is (tk + tr) * x + tk * tr * y <= y, at twelve decimals.
TanLe(a, y, x) ==
    LET tk == Reverse(TanDegrees[(a \div 100) + 1])
        tr == Reverse(TanHundredths[(a % 100) + 1])
    IN  BigLe(BigAdd(Shifted(BigMul(BigAdd(tk, tr), Big(x)), 3),
                     BigMul(BigMul(tk, tr), Big(y))),
              Shifted(Big(y), 6))

\* round(10000 * tan(k degrees)), k = 0 .. 45
TanTable ==
    << 0, 175, 349, 524, 699, 875, 1051, 1228, 1405, 1584, 1763, 1944, 2126,
       2309, 2493, 2679, 2867, 3057, 3249, 3443, 3640, 3839, 4040, 4245,
       4452, 4663, 4877, 5095, 5317, 5543, 5774, 6009, 6249, 6494, 6745,
       7002, 7265, 7536, 7813, 8098, 8391, 8693, 9004, 9325, 9657, 10000 >>

Tan(k) == TanTable[k + 1]

\* degrees(atan(y / x)) in hundredths, for 0 <= y <= x, to within one
\* hundredth: the whole degree from TanTable, the rest by linear
\* interpolation.
AtanGuess(y, x) ==
    LET q == (10000 * y) \div x
        k == CHOOSE j \in 0..45 : Tan(j) <= q /\ (j < 45 => Tan(j + 1) > q)
    IN  IF k = 45 THEN 4500
        ELSE 100 * k + ((q - Tan(k)) * 100) \div (Tan(k + 1) - Tan(k))

\* The hundredths in which degrees(atan(y / x)) is looked for: around the
\* guess (all of them where 10000 * y is too large for the guess).
AtanWindow(y, x) ==
    IF y < 200000
    THEN { c \in (AtanGuess(y, x) - 3)..(AtanGuess(y, x) + 3) :
               0 <= c /\ c <= 4500 }
    ELSE 0..4500

\* degrees(atan(y / x)) for 0 <= y <= x, in hundredths of a degree, cut
\* off: the last hundredth whose tangent does not exceed y / x.
AtanLow(y, x) ==
    CHOOSE c \in AtanWindow(y, x) :
        TanLe(c, y, x) /\ (c = 4500 \/ ~TanLe(c + 1, y, x))

\* degrees(atan(rise / (1000 * km))) for rise >= 0, in hundredths of a
\* degree, cut off.  Past 45 degrees the angle is 90 degrees less the
\* angle of the inverse ratio (which is never a whole number of hundredths).
AtanCut(rise, km) ==
    IF rise <= 1000 * km THEN AtanLow(rise, 1000 * km)
    ELSE 8999 - AtanLow(1000 * km, rise)

\* The rises and distances the terrains and settings of this model produce:
\* whole hundreds of metres up to the highest ridge seen from sea level,
\* whole kilometres up to the longest ray.
HighestRise == 6 + 2 * MaxRidge

LongestRay ==
    CHOOSE k \in { s.check_distance_km : s \in SettingsSet } :
        \A s \in SettingsSet : s.check_distance_km <= k

\* AtanCut over those rises and distances, computed once: cell
\* h * LongestRay + km holds AtanCut(100 * h, km).
AtanCells ==
    << >> \o [ c \in 1..((HighestRise + 1) * LongestRay) |->
                 AtanCut(100 * ((c - 1) \div LongestRay),
                         ((c - 1) % LongestRay) + 1) ]

\* math.degrees(math.atan(rise / (km * 1000.0))) for rise >= 0, in
\* hundredths of a degree, cut off.
AtanUp(rise, km) ==
    IF rise % 100 = 0 /\ rise \div 100 <= HighestRise /\ km <= LongestRay
    THEN AtanCells[(rise \div 100) * LongestRay + km]
    ELSE AtanCut(rise, km)

\* angle = math.degrees(math.atan(relative_height / dist_m)),
\* dist_m = distances[i] * 1000.0; atan is odd, so terrain below the observer
\* gets the negated angle of the same drop.
AngleOf(relative_height, distance_km) ==
    IF relative_height >= 0 THEN AtanUp(relative_height, distance_km)
    ELSE 0 - AtanUp(0 - relative_height, distance_km)

\* d = step_km; while d <= check_distance_km: distances.append(d); d += step_km
\* Pass n of the loop appends d = n * step_km; the loop leaves before the
\* first pass whose d exceeds check_distance_km.  (Requires step_km > 0, as
\* the loop itself does to terminate.)
SampleDistances(check_distance_km, step_km) ==
    LET passes == CHOOSE n \in 0..check_distance_km :
                      /\ n * step_km <= check_distance_km
                      /\ (n + 1) * step_km > check_distance_km
    IN  [ n \in 1..passes |-> n * step_km ]

\* points.append({"latitude": lat, "longitude": lon}) for every distance
SamplePoints(obs_lat, obs_lon, azimuth, ds) ==
    [ n \in 1..Len(ds) |->
        calculate_destination(obs_lat, obs_lon, ds[n], azimuth) ]

\* chunk = points[i:i + chunk_size], i counted from 0
Chunk(ps, i) ==
    SubSeq(ps, i + 1, IF i + chunk_size < Len(ps) THEN i + chunk_size ELSE Len(ps))

\* One pass of "for i, item in enumerate(all_results)": item n (from 1) is
\* paired with distances[n]; acc holds max_angle and has_valid_data.
ReduceStep(res, ds, obs_alt, n, acc) ==
    LET angle == AngleOf(res[n].elevation - obs_alt, ds[n])
    IN  IF angle > acc.max_angle
        THEN [max_angle |-> angle, has_valid_data |-> TRUE]
        ELSE acc

\* The passes lo .. hi of that loop, in order (the range is halved so that
\* the evaluation stays shallow; the passes run left to right, and the test
\* on `left`, which never fails, only makes the left half be computed first).
RECURSIVE ReduceAngles(_, _, _, _, _, _)
ReduceAngles(res, ds, obs_alt, lo, hi, acc) ==
    IF lo > hi THEN acc
    ELSE IF lo = hi THEN ReduceStep(res, ds, obs_alt, lo, acc)
    ELSE LET mid == (lo + hi) \div 2
             left == ReduceAngles(res, ds, obs_alt, lo, mid, acc)
         IN  IF left.max_angle >= -9000 \/ left.has_valid_data
             THEN ReduceAngles(res, ds, obs_alt, mid + 1, hi, left)
             ELSE left

\* Mutant: the "no data" case returns the initial max_angle, not 0.0.
HorizonResult_NoFallback(res, ds, obs_alt) ==
    ReduceAngles(res, ds, obs_alt, 1, Len(res),
        [max_angle |-> -9000, has_valid_data |-> FALSE]).max_angle

\* What get_horizon_elevation_angle returns once the requests are done.
HorizonResult(res, ds, obs_alt) ==
    LET r == ReduceAngles(res, ds, obs_alt, 1, Len(res),
                 [max_angle |-> -9000, has_valid_data |-> FALSE])
    IN  IF ~r.has_valid_data \/ r.max_angle = -9000 THEN 0 ELSE r.max_angle

\* strftime('%H:%M:%S') of t.replace(tzinfo=utc).astimezone(JST)
JstClock(t) == (t + JST) % 1440

-----------------------------------------------------------------------------
(* The floats of the distance loop.  step_km and check_distance_km are     *)
(* Python floats (IEEE 754 binary64) and "d += step_km" rounds at every    *)
(* pass.  SampleDistances above is that loop for whole kilometres, where   *)
(* every sum is exact; for the decimal fractions a config.yaml can hold    *)
(* the loop is run on the floats themselves.  A positive float is          *)
(* [bits, e]: `bits` are the 53 bits of its significand, first bit 1, and  *)
(* the last bit weighs 2^e.                                                *)

\* the significand of a binary64, in bits
Precision == 53

Zeros(k) == [ i \in 1..k |-> 0 ]

\* The carry out of the bits after place i in a + b + carry: some place
\* generates one and every place between passes it on, or every place
\* passes the carry that came in.
CarryInto(a, b, i, carry) ==
    \/ \E j \in (i + 1)..Len(a) :
           /\ a[j] + b[j] = 2
           /\ \A m \in (i + 1)..(j - 1) : a[m] + b[m] = 1
    \/ /\ carry = 1
       /\ \A m \in (i + 1)..Len(a) : a[m] + b[m] = 1

\* The bits of a + b + carry for a and b of one length: one bit more.
AddBits(a, b, carry) ==
    [ i \in 1..(Len(a) + 1) |->
        IF i = 1 THEN (IF CarryInto(a, b, 0, carry) THEN 1 ELSE 0)
        ELSE (a[i - 1] + b[i - 1]
              + (IF CarryInto(a, b, i - 1, carry) THEN 1 ELSE 0)) % 2 ]

\* s without its leading zeros (s has a 1)
StripZeros(s) ==
    LET k == CHOOSE j \in 1..Len(s) :
                 s[j] = 1 /\ \A i \in 1..(j - 1) : s[i] = 0
    IN  SubSeq(s, k, Len(s))

\* The float nearest to the number whose bits are s (first bit 1) with the
\* last bit weighing 2^e: round to nearest, ties to even.
RoundBits(s, e) ==
    LET n == Len(s)
        k == n - Precision
        q == SubSeq(s, 1, Precision)
        up == /\ s[Precision + 1] = 1
              /\ \/ q[Precision] = 1
                 \/ \E j \in (Precision + 2)..n : s[j] = 1
        q1 == AddBits(q, Zeros(Precision), 1)
    IN  IF k <= 0 THEN [bits |-> s \o Zeros(0 - k), e |-> e + k]
        ELSE IF ~up THEN [bits |-> q, e |-> e + k]
        ELSE IF q1[1] = 1 THEN [bits |-> SubSeq(q1, 1, Precision), e |-> e + k + 1]
        ELSE [bits |-> SubSeq(q1, 2, Precision + 1), e |-> e + k]

\* x + y of two positive floats
FAdd(x, y) ==
    LET el == IF x.e < y.e THEN x.e ELSE y.e
        ax == x.bits \o Zeros(x.e - el)
        ay == y.bits \o Zeros(y.e - el)
        n  == IF Len(ax) > Len(ay) THEN Len(ax) ELSE Len(ay)
        sum == AddBits(Zeros(n - Len(ax)) \o ax, Zeros(n - Len(ay)) \o ay, 0)
    IN  RoundBits(StripZeros(sum), el)

\* x <= y of two positive floats
FLe(x, y) ==
    \/ x.e < y.e
    \/ /\ x.e = y.e
       /\ \/ x.bits = y.bits
          \/ \E i \in 1..Precision :
                 /\ x.bits[i] < y.bits[i]
                 /\ \A j \in 1..(i - 1) : x.bits[j] = y.bits[j]

\* 2^k % den, by squaring (den below 2^15, so that no product overflows)
RECURSIVE Pow2Mod(_, _)
Pow2Mod(k, den) ==
    IF k = 0 THEN 1 % den
    ELSE LET h == Pow2Mod(k \div 2, den)
         IN  (((h * h) % den) * (IF k % 2 = 1 THEN 2 ELSE 1)) % den

\* What is left of r / den (r < den) after `count` bits of its binary
\* fraction: (r * 2^count) % den.
RatioRem(r, den, count) == (r * Pow2Mod(count, den)) % den

\* The first `count` bits of the binary fraction r / den.
RatioBits(r, den, count) ==
    [ i \in 1..count |-> (2 * RatioRem(r, den, i - 1)) \div den ]

\* The float a decimal literal of config.yaml is read as: the binary64
\* nearest to num / den (num, den > 0).  The ratio is first scaled by a power
\* of two into 1 <= n / m < 2.
FromRatio(num, den) ==
    LET up == CHOOSE k \in 0..20 :
                  IF num >= den
                  THEN den * 2^k <= num /\ num < den * 2^(k + 1)
                  ELSE num * 2^k >= den /\ num * 2^k < 2 * den
        n  == IF num >= den THEN num ELSE num * 2^up
        m  == IF num >= den THEN den * 2^up ELSE den
        p  == IF num >= den THEN up ELSE 0 - up
        sticky == IF RatioRem(n - m, m, Precision) # 0 THEN 1 ELSE 0
    IN  RoundBits(<< 1 >> \o RatioBits(n - m, m, Precision) \o << sticky >>,
                  p - Precision - 1)

\* float(v) of a value v = [num, den] of the settings
Km(v) == FromRatio(v.num, v.den)

-----------------------------------------------------------------------------
(* The decisions of the two searches.                                      *)

\* datetime.combine(target_date_obj, time(h, 0)).replace(tzinfo=JST)
\*     .astimezone(timezone.utc), for a local minute of the target day
AnchorUtc(local_minute) == local_minute - JST

\* Mutant: the search leaves observer.date as it finds it.
Anchored_Stale(obs, local_minute) == obs

\* observer.date = target_noon_jst.astimezone(datetime.timezone.utc), and
\* the same with target_midnight_jst
Anchored(obs, local_minute) == [obs EXCEPT !.date = AnchorUtc(local_minute)]

\* if sun_alt > terrain_angle:
SunAbove(alt, angle) == alt > angle

\* Mutant: the pass at exactly 120 minutes is still taken.
WithinBudget_Inclusive(e) == e <= max_limit

\* while elapsed_rewind < max_rewind_limit:
WithinBudget(e) == e < max_limit

\* Mutant: the correction is two steps.
SunsetFound_TwoSteps(t, step_minutes) == t + 2 * step_minutes

\* Mutant: the step back to the last hidden sample is forgotten.
SunsetFound_NoStep(t, step_minutes) == t

\* found_time = current_check_time + datetime.timedelta(minutes=step_minutes)
SunsetFound(t, step_minutes) == t + step_minutes

\* Mutant: the sunset's step correction is applied to the sunrise too.
SunriseFound_Stepped(t, step_minutes) == t + step_minutes

\* found_time = current_check_time
SunriseFound(t, step_minutes) == t

\* Mutant: the fallback is the last instant of the scan.
SunsetFallback_Last(std, t) == t

\* if found_time is None: found_time = standard_sunset.datetime()
SunsetFallback(std, t) == std

\* Mutant: the sunrise fallback is the instant the scan stopped at.
SunriseFallback_Last(std, t) == t

\* if found_time is None: found_time = standard_sunrise.datetime()
SunriseFallback(std, t) == std

\* Mutant: only AlwaysUpError is caught as "no event".
NoEvent_AlwaysUpOnly(kind) == kind = "AlwaysUp"

\* except (ephem.AlwaysUpError, ephem.NeverUpError): return None
NoEvent(kind) == kind \in {"AlwaysUp", "NeverUp"}

\* Mutant: the loop advances by half a chunk, so points are asked twice.
NextChunk_HalfStep(i) == i + chunk_size \div 2

\* range(0, len(points), chunk_size): the next i
NextChunk(i) == i + chunk_size

\* get_terrain_altitude: the elevation of the first result, 0 on any error
get_terrain_altitude(lat, lon, ok) ==
    IF ok THEN ElevationAt(terrain, calculate_destination(lat, lon, 0, 0))
    ELSE 0

\* all_results.extend(r.json()['results']) on status 200, nothing otherwise
ExtendResults(res, chunk, outcome) ==
    IF outcome = "ok"
    THEN res \o [ n \in 1..Len(chunk) |-> ResultItem(terrain, chunk[n]) ]
    ELSE res

\* What one request can end as: status 200, another status, an exception
\* (a timeout among them).
RequestOutcomes == {"ok", "status", "raise"}

\* if res_rise: results.append(f"...: {res_jst.strftime('%H:%M:%S')} (JST)")
AppendResult(rs, label, res) ==
    IF res # None
    THEN Append(rs, [label |-> label, clock |-> JstClock(res[1])])
    ELSE rs

NoCalls == [next_event |-> 0, compute |-> 0, lookup |-> 0]

-----------------------------------------------------------------------------
(* Initial state: config.yaml is loaded, nothing has run.  observer.date   *)
(* is written by each search before it is read, so its first value (the    *)
(* wall clock in ephem) is immaterial and is taken as 0.                   *)

Init ==
    /\ mode \in Modes
    /\ settings \in SettingsSet
    /\ eph \in EphDays
    /\ terrain \in Terrains
    /\ pc = "setup"
    /\ observer = [lat |-> ConfigLat, lon |-> ConfigLon, elevation |-> 0,
                   date |-> 0]
    /\ my_elevation = 0
    /\ standard = None
    /\ current_check_time = 0
    /\ elapsed = 0
    /\ found_time = None
    /\ sun_az = 0
    /\ sun_alt = 0
    /\ terrain_angle = 0
    /\ points = << >>
    /\ distances = << >>
    /\ d = None
    /\ all_results = << >>
    /\ chunk_i = 0
    /\ res_rise = None
    /\ res_set = None
    /\ results = << >>
    /\ console = << >>
    /\ printed = << >>
    /\ h_scan_log = << >>
    /\ h_requests = << >>
    /\ h_calls = NoCalls
    /\ h_ridge_case = TRUE
    /\ h_all_failed = TRUE

scan_vars == << standard, current_check_time, elapsed, found_time, sun_az,
                sun_alt, terrain_angle >>

horizon_vars == << points, distances, d, all_results, chunk_i >>

env_vars == << mode, settings, eph, terrain >>

out_vars == << res_rise, res_set, results, console, printed >>

-----------------------------------------------------------------------------
(* __main__ and setup_observer.                                            *)

\* observer, my_elevation = setup_observer(target_date, lat, lon)
SetupObserver ==
    /\ pc = "setup"
    /\ \E ok \in BOOLEAN :
        /\ my_elevation' = get_terrain_altitude(observer.lat, observer.lon, ok)
        /\ observer' = [observer EXCEPT !.elevation = my_elevation']
        /\ h_all_failed' = (h_all_failed /\ ~ok)
    /\ pc' = "main_rise"
    /\ UNCHANGED << env_vars, scan_vars, horizon_vars, out_vars, h_scan_log,
                    h_requests, h_calls, h_ridge_case >>

\* if mode in ["sunrise", "both"]: res_rise = calculate_actual_sunrise(...)
MainSunrise ==
    /\ pc = "main_rise"
    /\ \/ mode \in {"sunrise", "both"} /\ pc' = "rise_anchor"
       \/ mode \notin {"sunrise", "both"} /\ pc' = "main_set"
    /\ UNCHANGED << env_vars, observer, my_elevation, scan_vars, horizon_vars,
                    out_vars, h_scan_log, h_requests, h_calls, h_ridge_case,
                    h_all_failed >>

\* if res_rise: results.append(...); the locals of the search are gone
MainSunriseResult ==
    /\ pc = "main_rise_ret"
    /\ results' = AppendResult(results, "sunrise", res_rise)
    /\ pc' = "main_set"
    /\ standard' = None
    /\ current_check_time' = 0
    /\ elapsed' = 0
    /\ found_time' = None
    /\ sun_az' = 0
    /\ sun_alt' = 0
    /\ terrain_angle' = 0
    /\ UNCHANGED << env_vars, observer, my_elevation, horizon_vars, res_rise,
                    res_set, console, printed, h_scan_log, h_requests,
                    h_calls, h_ridge_case, h_all_failed >>

\* if mode in ["sunset", "both"]: res_set = calculate_actual_sunset(...)
MainSunset ==
    /\ pc = "main_set"
    /\ \/ mode \in {"sunset", "both"} /\ pc' = "set_anchor"
       \/ mode \notin {"sunset", "both"} /\ pc' = "main_print"
    /\ UNCHANGED << env_vars, observer, my_elevation, scan_vars, horizon_vars,
                    out_vars, h_scan_log, h_requests, h_calls, h_ridge_case,
                    h_all_failed >>

\* if res_set: results.append(...); the locals of the search are gone
MainSunsetResult ==
    /\ pc = "main_set_ret"
    /\ results' = AppendResult(results, "sunset", res_set)
    /\ pc' = "main_print"
    /\ standard' = None
    /\ current_check_time' = 0
    /\ elapsed' = 0
    /\ found_time' = None
    /\ sun_az' = 0
    /\ sun_alt' = 0
    /\ terrain_angle' = 0
    /\ UNCHANGED << env_vars, observer, my_elevation, horizon_vars, res_rise,
                    res_set, console, printed, h_scan_log, h_requests,
                    h_calls, h_ridge_case, h_all_failed >>

\* for r in results: print(r)
MainPrint ==
    /\ pc = "main_print"
    /\ printed' = results
    /\ pc' = "done"
    /\ UNCHANGED << env_vars, observer, my_elevation, scan_vars, horizon_vars,
                    res_rise, res_set, results, console, h_scan_log,
                    h_requests, h_calls, h_ridge_case, h_all_failed >>

-----------------------------------------------------------------------------
(* get_horizon_elevation_angle, from the request loop on.  It runs inside  *)
(* a pass of either search; pc says which.                                 *)

HorizonPcs == {"rise_horizon", "set_horizon"}

ReturnTo(p) == IF p = "rise_horizon" THEN "rise_cmp" ELSE "set_cmp"

\* if not points: return 0.0
HorizonEmpty ==
    /\ pc \in HorizonPcs
    /\ points = << >>
    /\ terrain_angle' = 0
    /\ h_ridge_case' = (h_ridge_case /\ (h_scan_log = << >> \/ 0 = terrain_angle))
    /\ distances' = << >>
    /\ pc' = ReturnTo(pc)
    /\ UNCHANGED << env_vars, observer, my_elevation, standard,
                    current_check_time, elapsed, found_time, sun_az, sun_alt,
                    points, d, all_results, chunk_i, out_vars, h_scan_log,
                    h_requests, h_calls, h_all_failed >>

\* One pass of "for i in range(0, len(points), chunk_size)": one request.
HorizonRequest ==
    /\ pc \in HorizonPcs
    /\ chunk_i < Len(points)
    /\ \E outcome \in RequestOutcomes :
        /\ all_results' = ExtendResults(all_results, Chunk(points, chunk_i), outcome)
        /\ h_requests' = Append(h_requests,
               [start |-> chunk_i, count |-> Len(Chunk(points, chunk_i)),
                ok |-> outcome = "ok"])
        /\ h_all_failed' = (h_all_failed /\ outcome # "ok")
    /\ chunk_i' = NextChunk(chunk_i)
    /\ h_calls' = [h_calls EXCEPT !.lookup = @ + 1]
    /\ UNCHANGED << env_vars, pc, observer, my_elevation, scan_vars, points,
                    distances, d, out_vars, h_scan_log, h_ridge_case >>

\* The requests are done: the angles are reduced and the call returns.
HorizonReduce ==
    /\ pc \in HorizonPcs
    /\ points # << >>
    /\ chunk_i >= Len(points)
    /\ terrain_angle' = HorizonResult(all_results, distances, my_elevation)
    /\ h_ridge_case' =
          (h_ridge_case /\ (h_scan_log = << >> \/ terrain_angle' = terrain_angle))
    /\ points' = << >>
    /\ distances' = << >>
    /\ all_results' = << >>
    /\ chunk_i' = 0
    /\ pc' = ReturnTo(pc)
    /\ UNCHANGED << env_vars, observer, my_elevation, standard,
                    current_check_time, elapsed, found_time, sun_az, sun_alt,
                    d, out_vars, h_scan_log, h_requests, h_calls,
                    h_all_failed >>

-----------------------------------------------------------------------------
(* calculate_actual_sunrise.                                                  *)

\* observer.date = the anchor; standard = observer.next_rising(sun), or
\* return None on AlwaysUpError / NeverUpError; then the locals of the scan.
SunriseAnchor ==
    /\ pc = "rise_anchor"
    /\ observer' = Anchored(observer, 0)
    /\ h_scan_log' = << >>
    /\ h_requests' = << >>
    /\ h_ridge_case' = TRUE
    /\ h_calls' = [NoCalls EXCEPT !.next_event = 1]
    /\ IF NoEvent(eph.kind)
       THEN /\ res_rise' = None
            /\ pc' = "main_rise_ret"
            /\ UNCHANGED scan_vars
       ELSE /\ standard' = Some(NextEvent(eph.rise, observer'.date))
            /\ current_check_time' = standard'[1]
            /\ elapsed' = 0
            /\ found_time' = None
            /\ pc' = "rise_loop"
            /\ UNCHANGED << res_rise, sun_az, sun_alt, terrain_angle >>
    /\ UNCHANGED << env_vars, my_elevation, horizon_vars, res_set, results,
                    console, printed, h_all_failed >>

\* One pass of the loop up to the call of get_horizon_elevation_angle:
\* observer.date = current_check_time; sun.compute(observer); and, inside
\* the call, the sample distances and points along sun_az.
SunriseSample ==
    /\ pc = "rise_loop"
    /\ WithinBudget(elapsed)
    /\ \E az \in RiseAzimuths :
       \E alt \in (IF current_check_time = standard[1]
                   THEN SunAltAtStandard ELSE SunAlts) :
        /\ sun_az' = az
        /\ sun_alt' = alt
        /\ h_ridge_case' = (h_ridge_case /\ (h_scan_log = << >> \/ alt > sun_alt))
        /\ distances' = SampleDistances(settings.check_distance_km,
                            settings.step_km)
        /\ points' = SamplePoints(ConfigLat, ConfigLon, az, distances')
    /\ observer' = [observer EXCEPT !.date = current_check_time]
    /\ all_results' = << >>
    /\ chunk_i' = 0
    /\ h_requests' = << >>
    /\ h_calls' = [h_calls EXCEPT !.compute = @ + 1]
    /\ pc' = "rise_horizon"
    /\ UNCHANGED << env_vars, my_elevation, standard, current_check_time,
                    elapsed, found_time, terrain_angle, d, out_vars,
                    h_scan_log, h_all_failed >>

\* The rest of the pass: the sample is printed, then either the sun is above
\* the terrain (found, break, return) or the scan steps on:
\* current_check_time += timedelta(minutes=step_minutes)
SunriseCompare ==
    /\ pc = "rise_cmp"
    /\ h_scan_log' = Append(h_scan_log,
            [t |-> current_check_time, above |-> sun_alt > terrain_angle])
    /\ h_requests' = << >>
    /\ IF SunAbove(sun_alt, terrain_angle)
       THEN /\ console' = Append(console, "sunrise_found")
            /\ found_time' = Some(SunriseFound(current_check_time, settings.step_minutes))
            /\ res_rise' = found_time'
            /\ pc' = "main_rise_ret"
            /\ UNCHANGED << current_check_time, elapsed >>
       ELSE /\ current_check_time' = current_check_time + settings.step_minutes
            /\ elapsed' = elapsed + settings.step_minutes
            /\ pc' = "rise_loop"
            /\ UNCHANGED << console, found_time, res_rise >>
    /\ UNCHANGED << env_vars, observer, my_elevation, standard, sun_az,
                    sun_alt, terrain_angle, horizon_vars, res_set, results,
                    printed, h_calls, h_ridge_case, h_all_failed >>

\* The budget is spent: print "not found in range", return the standard rising.
SunriseExhausted ==
    /\ pc = "rise_loop"
    /\ ~WithinBudget(elapsed)
    /\ console' = Append(console, "sunrise_not_found")
    /\ found_time' = Some(SunriseFallback(standard[1], current_check_time))
    /\ res_rise' = found_time'
    /\ pc' = "main_rise_ret"
    /\ UNCHANGED << env_vars, observer, my_elevation, standard,
                    current_check_time, elapsed, sun_az, sun_alt,
                    terrain_angle, horizon_vars, res_set, results, printed,
                    h_scan_log, h_requests, h_calls, h_ridge_case,
                    h_all_failed >>

-----------------------------------------------------------------------------
(* calculate_actual_sunset.                                                  *)

\* observer.date = the anchor; standard = observer.next_setting(sun), or
\* return None on AlwaysUpError / NeverUpError; then the locals of the scan.
SunsetAnchor ==
    /\ pc = "set_anchor"
    /\ observer' = Anchored(observer, 720)
    /\ h_scan_log' = << >>
    /\ h_requests' = << >>
    /\ h_ridge_case' = TRUE
    /\ h_calls' = [NoCalls EXCEPT !.next_event = 1]
    /\ IF NoEvent(eph.kind)
       THEN /\ res_set' = None
            /\ pc' = "main_set_ret"
            /\ UNCHANGED scan_vars
       ELSE /\ standard' = Some(NextEvent(eph.set, observer'.date))
            /\ current_check_time' = standard'[1]
            /\ elapsed' = 0
            /\ found_time' = None
            /\ pc' = "set_loop"
            /\ UNCHANGED << res_set, sun_az, sun_alt, terrain_angle >>
    /\ UNCHANGED << env_vars, my_elevation, horizon_vars, res_rise, results,
                    console, printed, h_all_failed >>

\* One pass of the loop up to the call of get_horizon_elevation_angle:
\* observer.date = current_check_time; sun.compute(observer); and, inside
\* the call, the sample distances and points along sun_az.
SunsetSample ==
    /\ pc = "set_loop"
    /\ WithinBudget(elapsed)
    /\ \E az \in SetAzimuths :
       \E alt \in (IF current_check_time = standard[1]
                   THEN SunAltAtStandard ELSE SunAlts) :
        /\ sun_az' = az
        /\ sun_alt' = alt
        /\ h_ridge_case' = (h_ridge_case /\ (h_scan_log = << >> \/ alt > sun_alt))
        /\ distances' = SampleDistances(settings.check_distance_km,
                            settings.step_km)
        /\ points' = SamplePoints(ConfigLat, ConfigLon, az, distances')
    /\ observer' = [observer EXCEPT !.date = current_check_time]
    /\ all_results' = << >>
    /\ chunk_i' = 0
    /\ h_requests' = << >>
    /\ h_calls' = [h_calls EXCEPT !.compute = @ + 1]
    /\ pc' = "set_horizon"
    /\ UNCHANGED << env_vars, my_elevation, standard, current_check_time,
                    elapsed, found_time, terrain_angle, d, out_vars,
                    h_scan_log, h_all_failed >>

\* The rest of the pass: the sample is printed, then either the sun is above
\* the terrain (found, break, return) or the scan steps on:
\* current_check_time -= timedelta(minutes=step_minutes)
SunsetCompare ==
    /\ pc = "set_cmp"
    /\ h_scan_log' = Append(h_scan_log,
            [t |-> current_check_time, above |-> sun_alt > terrain_angle])
    /\ h_requests' = << >>
    /\ IF SunAbove(sun_alt, terrain_angle)
       THEN /\ console' = Append(console, "sunset_found")
            /\ found_time' = Some(SunsetFound(current_check_time, settings.step_minutes))
            /\ res_set' = found_time'
            /\ pc' = "main_set_ret"
            /\ UNCHANGED << current_check_time, elapsed >>
       ELSE /\ current_check_time' = current_check_time - settings.step_minutes
            /\ elapsed' = elapsed + settings.step_minutes
            /\ pc' = "set_loop"
            /\ UNCHANGED << console, found_time, res_set >>
    /\ UNCHANGED << env_vars, observer, my_elevation, standard, sun_az,
                    sun_alt, terrain_angle, horizon_vars, res_rise, results,
                    printed, h_calls, h_ridge_case, h_all_failed >>

\* The budget is spent: return the standard setting (nothing is printed).
SunsetExhausted ==
    /\ pc = "set_loop"
    /\ ~WithinBudget(elapsed)
    /\ UNCHANGED console
    /\ found_time' = Some(SunsetFallback(standard[1], current_check_time))
    /\ res_set' = found_time'
    /\ pc' = "main_set_ret"
    /\ UNCHANGED << env_vars, observer, my_elevation, standard,
                    current_check_time, elapsed, sun_az, sun_alt,
                    terrain_angle, horizon_vars, res_rise, results, printed,
                    h_scan_log, h_requests, h_calls, h_ridge_case,
                    h_all_failed >>

-----------------------------------------------------------------------------
Next ==
    \/ SetupObserver
    \/ MainSunrise
    \/ SunriseAnchor
    \/ SunriseSample
    \/ SunriseCompare
    \/ SunriseExhausted
    \/ MainSunriseResult
    \/ MainSunset
    \/ SunsetAnchor
    \/ SunsetSample
    \/ SunsetCompare
    \/ SunsetExhausted
    \/ MainSunsetResult
    \/ HorizonEmpty
    \/ HorizonRequest
    \/ HorizonReduce
    \/ MainPrint

Spec == Init /\ [][Next]_vars

\* The program is sequential and every call returns: a step that can be
\* taken is taken.
FairSpec == Spec /\ WF_vars(Next)

-----------------------------------------------------------------------------
(* The distance loop of get_horizon_elevation_angle, pass by pass, on the  *)
(* floats: one call, with step_km and check_distance_km as the decimals    *)
(* of config.yaml.                                                         *)

\* The decimals tried, in tenths of a kilometre.
StepTenths == {1, 2, 10, 20}

CheckTenths == {3, 6, 10, 14, 30}

DistSettings ==
    { [step_minutes |-> 30,
       check_distance_km |-> [num |-> c, den |-> 10],
       step_km |-> [num |-> t, den |-> 10]] :
          c \in CheckTenths, t \in StepTenths }

\* get_horizon_elevation_angle is entered: d = step_km
DistInit ==
    /\ mode = "sunset"
    /\ settings \in DistSettings
    /\ eph = [kind |-> "normal", rise |-> 1230, set |-> 510]
    /\ terrain = [kind |-> "flat", level |-> 0]
    /\ pc = "dist_loop"
    /\ observer = [lat |-> ConfigLat, lon |-> ConfigLon, elevation |-> 0,
                   date |-> 0]
    /\ my_elevation = 0
    /\ standard = None
    /\ current_check_time = 0
    /\ elapsed = 0
    /\ found_time = None
    /\ sun_az = 0
    /\ sun_alt = 0
    /\ terrain_angle = 0
    /\ points = << >>
    /\ distances = << >>
    /\ d = Some(Km(settings.step_km))
    /\ all_results = << >>
    /\ chunk_i = 0
    /\ res_rise = None
    /\ res_set = None
    /\ results = << >>
    /\ console = << >>
    /\ printed = << >>
    /\ h_scan_log = << >>
    /\ h_requests = << >>
    /\ h_calls = NoCalls
    /\ h_ridge_case = TRUE
    /\ h_all_failed = TRUE

\* while d <= check_distance_km: points.append(...); distances.append(d);
\* d += step_km
DistancePass ==
    /\ pc = "dist_loop"
    /\ FLe(d[1], Km(settings.check_distance_km))
    /\ distances' = Append(distances, d[1])
    /\ points' = Append(points,
                     calculate_destination(ConfigLat, ConfigLon, d[1], sun_az))
    /\ d' = Some(FAdd(d[1], Km(settings.step_km)))
    /\ UNCHANGED << env_vars, pc, observer, my_elevation, scan_vars,
                    all_results, chunk_i, out_vars, h_scan_log, h_requests,
                    h_calls, h_ridge_case, h_all_failed >>

\* The loop is left: "if not points: return 0.0", or on to the requests.
DistanceLoopExit ==
    /\ pc = "dist_loop"
    /\ ~FLe(d[1], Km(settings.check_distance_km))
    /\ IF points = << >>
       THEN terrain_angle' = 0 /\ pc' = "dist_return"
       ELSE UNCHANGED terrain_angle /\ pc' = "dist_requests"
    /\ UNCHANGED << env_vars, observer, my_elevation, standard,
                    current_check_time, elapsed, found_time, sun_az, sun_alt,
                    horizon_vars, out_vars, h_scan_log, h_requests, h_calls,
                    h_ridge_case, h_all_failed >>

\* For whole kilometres every sum of the loop is exact, and the loop leaves
\* the distances of SampleDistances.
WholeKmLoopIsExact ==
    LET check == settings.check_distance_km.num \div 10
        step == settings.step_km.num \div 10
    IN  (/\ pc \in {"dist_return", "dist_requests"}
         /\ settings.check_distance_km.num % 10 = 0
         /\ settings.step_km.num % 10 = 0) =>
            /\ Len(distances) = Len(SampleDistances(check, step))
            /\ \A k \in 1..Len(distances) :
                   distances[k] = FromRatio(SampleDistances(check, step)[k], 1)

DistNext == DistancePass \/ DistanceLoopExit

DistSpec == DistInit /\ [][DistNext]_vars

-----------------------------------------------------------------------------
(* Vocabulary of the properties.                                           *)

InSunset == pc \in {"set_loop", "set_horizon", "set_cmp", "main_set_ret"}

InSunrise == pc \in {"rise_loop", "rise_horizon", "rise_cmp", "main_rise_ret"}

Std == standard[1]

LogLen == Len(h_scan_log)

\* No sample so far saw the sun above the terrain.
AllHidden == \A n \in 1..LogLen : ~h_scan_log[n].above

\* Only the last sample saw the sun above the terrain.
FoundAtLast ==
    /\ LogLen >= 1
    /\ h_scan_log[LogLen].above
    /\ \A n \in 1..(LogLen - 1) : ~h_scan_log[n].above

\* The number of passes the 120-minute budget allows: ceil(120 / step).
BudgetPasses == (max_limit + settings.step_minutes - 1) \div settings.step_minutes

-----------------------------------------------------------------------------
\* C1: the sunset scan samples standard - k*step for k = 0, 1, 2, ... in that
\* order, steps back while the sun is at or below the horizon angle, and at
\* the first sample t with the sun above it stops (nothing earlier is
\* sampled) and returns t + step_minutes.
C1_SunsetScan ==
    (InSunset /\ standard # None) =>
        /\ \A n \in 1..LogLen :
               h_scan_log[n].t = Std - (n - 1) * settings.step_minutes
        /\ pc \in {"set_horizon", "set_cmp"} =>
               /\ observer.date = Std - LogLen * settings.step_minutes
               /\ h_calls.compute = LogLen + 1
        /\ AllHidden \/ FoundAtLast
        /\ (pc # "main_set_ret") => AllHidden
        /\ (LogLen >= 1 /\ h_scan_log[LogLen].above) =>
               /\ pc = "main_set_ret"
               /\ h_calls.compute = LogLen
               /\ res_set = Some(h_scan_log[LogLen].t + settings.step_minutes)

\* The sunset scan stopped at its third sample and returned the second.
C1_Witness ==
    /\ pc = "main_set_ret"
    /\ standard # None
    /\ LogLen = 3
    /\ FoundAtLast
    /\ res_set = Some(Std - settings.step_minutes)

\* C2: the sunrise scan samples standard + k*step for k = 0, 1, 2, ... in
\* that order and returns exactly the first sample at which the sun is above
\* the horizon angle (no step is added); at every earlier sample the sun was
\* at or below it.
C2_SunriseScan ==
    (InSunrise /\ standard # None) =>
        /\ \A n \in 1..LogLen :
               h_scan_log[n].t = Std + (n - 1) * settings.step_minutes
        /\ pc \in {"rise_horizon", "rise_cmp"} =>
               /\ observer.date = Std + LogLen * settings.step_minutes
               /\ h_calls.compute = LogLen + 1
        /\ AllHidden \/ FoundAtLast
        /\ (pc # "main_rise_ret") => AllHidden
        /\ (LogLen >= 1 /\ h_scan_log[LogLen].above) =>
               /\ pc = "main_rise_ret"
               /\ h_calls.compute = LogLen
               /\ res_rise = Some(h_scan_log[LogLen].t)

\* The sunrise scan stopped at its third sample and returned it.
C2_Witness ==
    /\ pc = "main_rise_ret"
    /\ standard # None
    /\ LogLen = 3
    /\ FoundAtLast
    /\ res_rise = Some(Std + 2 * settings.step_minutes)

\* C3: when the sun is at or below the horizon angle at every sample the
\* 120-minute budget allows, the sunset search returns exactly the standard
\* setting and the sunrise search exactly the standard rising.
C3_ExhaustedReturnsStandard ==
    /\ (pc = "main_set_ret" /\ standard # None /\ AllHidden) =>
           /\ LogLen = BudgetPasses
           /\ res_set = standard
    /\ (pc = "main_rise_ret" /\ standard # None /\ AllHidden) =>
           /\ LogLen = BudgetPasses
           /\ res_rise = standard

\* A sunset search that sampled its whole budget, last at an instant other
\* than the standard one, and returned the standard setting.
C3_Witness ==
    /\ pc = "main_set_ret"
    /\ standard # None
    /\ AllHidden
    /\ LogLen = BudgetPasses
    /\ current_check_time < Std
    /\ res_set = standard

-----------------------------------------------------------------------------
\* The elevation service answers the observer's own elevation everywhere and
\* setup_observer obtained it: every horizon angle is 0.
FlatObserver ==
    /\ terrain.kind = "flat"
    /\ my_elevation = ElevationAt(terrain,
                          calculate_destination(ConfigLat, ConfigLon, 0, 0))

\* C4 (as claimed): for a flat-terrain observer the sunset search returns the
\* standard setting and the sunrise search the standard rising, whatever the
\* sun altitudes sampled around the standard event.
C4_FlatEqualsStandard ==
    FlatObserver =>
        /\ (pc = "main_set_ret" /\ standard # None) => res_set = standard
        /\ (pc = "main_rise_ret" /\ standard # None) => res_rise = standard

-----------------------------------------------------------------------------
\* The case of C5 at the end of a sunset search: the horizon angle was the
\* same theta > 0 at every sample, the sun was strictly higher at each earlier
\* sample, it was at or below theta at the standard setting, and a sample
\* within the budget saw it above theta.
RidgeCase ==
    /\ pc = "main_set_ret"
    /\ standard # None
    /\ h_ridge_case
    /\ terrain_angle > 0
    /\ LogLen >= 2
    /\ ~h_scan_log[1].above
    /\ h_scan_log[LogLen].above

\* C5 (as claimed): in the ridge case the sunset returned is strictly earlier
\* than the standard setting.
C5_StrictlyEarlier == RidgeCase => res_set[1] < Std

\* C5 (amended): in the ridge case the sunset returned is never later than
\* the standard setting, and strictly earlier exactly when the sun is also at
\* or below theta one step before the standard setting; the returned instant
\* is a sample with the sun at or below theta and one step before it is a
\* sample with the sun above theta, so the crossing lies within one step of
\* the returned instant.
C5_RidgeSunset ==
    RidgeCase =>
        /\ res_set[1] <= Std
        /\ (res_set[1] < Std) <=> (LogLen >= 3)
        /\ (res_set[1] = Std) <=> h_scan_log[2].above
        /\ \E n \in 1..(LogLen - 1) :
               /\ h_scan_log[n].t = res_set[1]
               /\ ~h_scan_log[n].above
               /\ h_scan_log[n + 1].t = res_set[1] - settings.step_minutes
               /\ h_scan_log[n + 1].above

\* A ridge hides the sun at the standard setting and one step before it; the
\* sunset returned is one step before the standard setting.
C5_Witness ==
    /\ RidgeCase
    /\ LogLen = 3
    /\ res_set = Some(Std - settings.step_minutes)

-----------------------------------------------------------------------------
\* The request loop of get_horizon_elevation_angle is over.
RequestsDone == pc \in HorizonPcs /\ points # << >> /\ chunk_i >= Len(points)

\* C6 (as claimed): whatever chunks succeed or fail, all_results has the
\* length of points and its entry i is the elevation of point i, the one
\* distances[i] belongs to.
C6_ResultsAligned ==
    RequestsDone =>
        /\ Len(all_results) = Len(points)
        /\ \A n \in 1..Len(all_results) :
               /\ n <= Len(points)
               /\ all_results[n].point = points[n]

-----------------------------------------------------------------------------
\* The number of sample points of a ray under the settings.
RayLen == Len(SampleDistances(settings.check_distance_km, settings.step_km))

\* The number of requests one horizon call makes: ceil(len(points) / 100).
ChunkCount(n) == (n + chunk_size - 1) \div chunk_size

\* C7: when every elevation request fails, each call of
\* get_horizon_elevation_angle returns 0.0 (nothing is raised: the call
\* returns to the search), and each search that has a standard event runs to
\* its end, within the passes its budget allows and without ever being
\* stuck, and returns an instant.
C7_AllRequestsFail ==
    /\ (/\ pc \in {"rise_cmp", "set_cmp"}
        /\ \A n \in 1..Len(h_requests) : ~h_requests[n].ok)
           => terrain_angle = 0
    /\ (h_all_failed /\ (InSunset \/ InSunrise) /\ standard # None) =>
           /\ h_calls.compute <= BudgetPasses
           /\ Len(h_requests) <= ChunkCount(RayLen)
           /\ pc \in {"main_set_ret", "main_rise_ret"} =>
                  /\ LogLen = BudgetPasses \/ FoundAtLast
                  /\ pc = "main_set_ret" => Len(res_set) = 1
                  /\ pc = "main_rise_ret" => Len(res_rise) = 1
           /\ pc \notin {"main_set_ret", "main_rise_ret"} => ENABLED Next

\* Every request of the run failed, three in the last horizon call of a
\* sunset search that sampled its whole budget and returned an instant.
C7_Witness ==
    /\ h_all_failed
    /\ pc = "main_set_ret"
    /\ h_calls.lookup >= 3
    /\ LogLen = BudgetPasses
    /\ terrain_angle = 0
    /\ res_set = standard
    /\ standard # None

-----------------------------------------------------------------------------
\* C8: when the ephemeris reports AlwaysUp or NeverUp, each search returns
\* None at once: the ephemeris was asked once, no sun position was computed,
\* no elevation was looked up and no sample was taken.
C8_NoEventReturnsNone ==
    eph.kind \in {"AlwaysUp", "NeverUp"} =>
        /\ pc \notin {"rise_loop", "rise_horizon", "rise_cmp",
                      "set_loop", "set_horizon", "set_cmp"}
        /\ (pc = "main_set_ret") =>
               /\ res_set = None
               /\ h_calls = [next_event |-> 1, compute |-> 0, lookup |-> 0]
               /\ h_scan_log = << >>
               /\ observer.date = AnchorUtc(720)
        /\ (pc = "main_rise_ret") =>
               /\ res_rise = None
               /\ h_calls = [next_event |-> 1, compute |-> 0, lookup |-> 0]
               /\ h_scan_log = << >>
               /\ observer.date = AnchorUtc(0)

\* The sunset search has just returned None on a day the sun never rises.
C8_Witness ==
    /\ eph.kind = "NeverUp"
    /\ pc = "main_set_ret"
    /\ res_set = None
    /\ h_calls.next_event = 1

-----------------------------------------------------------------------------
\* The modes the configuration asks for.
Requested ==
    (IF mode \in {"sunrise", "both"} THEN {"sunrise"} ELSE {})
    \cup (IF mode \in {"sunset", "both"} THEN {"sunset"} ELSE {})

\* C9 (as claimed): the result output holds exactly one entry for each
\* requested mode, a corrected time or an explicit "no event" entry.
C9_OneEntryPerMode ==
    pc = "done" =>
        \A m \in Requested :
            Cardinality({ n \in 1..Len(printed) : printed[n].label = m }) = 1

-----------------------------------------------------------------------------
\* The messages of the console that say a search fell back to the standard
\* time.
Printed(msg) == \E n \in 1..Len(console) : console[n] = msg

\* C10 (as claimed): a search that ends by exhausting its budget emits a
\* fallback indication that a search ending on a found crossing does not.
C10_FallbackFlagged ==
    /\ (pc = "main_set_ret" /\ standard # None /\ AllHidden)
           => Printed("sunset_not_found")
    /\ (pc = "main_rise_ret" /\ standard # None /\ AllHidden)
           => Printed("sunrise_not_found")

-----------------------------------------------------------------------------
\* The angles of the elevations obtained, each taken at the distance of the
\* point the service answered for.
OwnAngles(res, obs_alt) ==
    { AngleOf(res[n].elevation - obs_alt, res[n].point.distance_km) :
          n \in 1..Len(res) }

MaxOf(S) == CHOOSE a \in S : \A b \in S : b <= a

\* The (distance, elevation) samples as the reduction pairs them, reduced in
\* the opposite order.
ReducedBackwards(res, ds, obs_alt) ==
    HorizonResult(Reverse(res), Reverse(SubSeq(ds, 1, Len(res))), obs_alt)

\* C11 (as claimed): when at least one elevation was obtained, the call
\* returns the largest angle among the obtained samples, each at its own
\* distance; the angle returned is negative when every obtained sample lies
\* below the observer; and reducing the samples in another order returns the
\* same angle.
C11_MaxOverObtained ==
    [][ (HorizonReduce /\ all_results # << >>) =>
          /\ terrain_angle' = MaxOf(OwnAngles(all_results, my_elevation))
          /\ (\A n \in 1..Len(all_results) :
                  all_results[n].elevation < my_elevation) => terrain_angle' < 0
          /\ terrain_angle' =
                 ReducedBackwards(all_results, distances, my_elevation) ]_vars

-----------------------------------------------------------------------------
\* The first pass of the sunset (sunrise) search is over and no other sample
\* has been taken: sun_alt and terrain_angle are those of the first sampled
\* instant, the standard one.
FirstSetPassDone ==
    pc \in {"set_loop", "main_set_ret"} /\ standard # None /\ LogLen = 1

FirstRisePassDone ==
    pc \in {"rise_loop", "main_rise_ret"} /\ standard # None /\ LogLen = 1

\* C12: when the sun's altitude is below 0 at the first sampled instant (the
\* standard one), the search reports that instant at once, whatever the
\* horizon angle, and takes no further step.
C12_FirstInstantShortCircuit ==
    /\ (FirstSetPassDone /\ sun_alt < 0) =>
           /\ pc = "main_set_ret"
           /\ res_set = Some(h_scan_log[1].t)
    /\ (FirstRisePassDone /\ sun_alt < 0) =>
           /\ pc = "main_rise_ret"
           /\ res_rise = Some(h_scan_log[1].t)

-----------------------------------------------------------------------------
\* C13: a search samples at most ceil(120 / step_minutes) instants, each less
\* than 120 minutes from the standard instant (before it for the sunset,
\* after it for the sunrise) and never on its other side; it ends FOUND (the
\* last sample saw the sun above the horizon angle) or EXHAUSTED; and a scan
\* that never sees the sun above the horizon angle goes on, pass after pass,
\* until the elapsed time has reached 120 minutes, which takes exactly
\* ceil(120 / step_minutes) samples.
C13_BudgetBoundsScan ==
    ((InSunset \/ InSunrise) /\ standard # None) =>
        /\ h_calls.compute <= BudgetPasses
        /\ LogLen <= h_calls.compute
        /\ \A n \in 1..LogLen :
               IF InSunset
               THEN 0 <= Std - h_scan_log[n].t /\ Std - h_scan_log[n].t < 120
               ELSE 0 <= h_scan_log[n].t - Std /\ h_scan_log[n].t - Std < 120
        /\ pc \in {"set_horizon", "set_cmp"} =>
               0 <= Std - observer.date /\ Std - observer.date < 120
        /\ pc \in {"rise_horizon", "rise_cmp"} =>
               0 <= observer.date - Std /\ observer.date - Std < 120
        /\ pc \in {"main_set_ret", "main_rise_ret"} =>
               \/ FoundAtLast
               \/ AllHidden /\ LogLen = BudgetPasses /\ elapsed >= 120
        /\ (pc = "set_loop" /\ elapsed < 120) =>
               AllHidden /\ ENABLED SunsetSample /\ ~ENABLED SunsetExhausted
        /\ (pc = "rise_loop" /\ elapsed < 120) =>
               AllHidden /\ ENABLED SunriseSample /\ ~ENABLED SunriseExhausted

\* A sunrise scan in steps of 50 minutes sampled the standard rising and the
\* instants 50 and 100 minutes after it, never saw the sun above the horizon
\* angle, and ended with 150 minutes elapsed.
C13_Witness ==
    /\ pc = "main_rise_ret"
    /\ standard # None
    /\ settings.step_minutes = 50
    /\ AllHidden
    /\ LogLen = 3
    /\ h_scan_log[3].t = Std + 100
    /\ elapsed = 150

-----------------------------------------------------------------------------
\* The whole multiples of step_km that do not exceed check_distance_km, for
\* the decimals of the settings: floor(check_distance_km / step_km) of them.
MultiplesWithin(check, step) == (check.num * step.den) \div (check.den * step.num)

\* The float x is the multiple k * step_km, give or take less than half a
\* step.
IsMultiple(x, k, step) ==
    /\ FLe(FromRatio((2 * k - 1) * step.num, 2 * step.den), x)
    /\ FLe(x, FromRatio((2 * k + 1) * step.num, 2 * step.den))

\* C14 (as claimed): the loop leaves distances = step_km, 2*step_km, ... up
\* to the largest multiple not exceeding check_distance_km: never 0, at
\* least one when step_km <= check_distance_km; and when step_km exceeds
\* check_distance_km the list is empty and the call returns 0.0 without a
\* request.
C14_SampleDistances ==
    pc \in {"dist_return", "dist_requests"} =>
        /\ Len(distances) =
               MultiplesWithin(settings.check_distance_km, settings.step_km)
        /\ \A k \in 1..Len(distances) :
               IsMultiple(distances[k], k, settings.step_km)
        /\ FLe(Km(settings.step_km), Km(settings.check_distance_km))
               => Len(distances) >= 1
        /\ ~FLe(Km(settings.step_km), Km(settings.check_distance_km)) =>
               /\ pc = "dist_return"
               /\ distances = << >>
               /\ terrain_angle = 0
               /\ h_calls.lookup = 0

-----------------------------------------------------------------------------
\* The places (from 1) in points of the samples whose chunk was answered.
AnsweredPlaces ==
    { n \in 1..Len(points) :
          \E r \in 1..Len(h_requests) :
              /\ h_requests[r].ok
              /\ h_requests[r].start < n
              /\ n <= h_requests[r].start + h_requests[r].count }

\* Some chunks of the call failed and some were answered.
PartialFailure ==
    /\ \E r \in 1..Len(h_requests) : h_requests[r].ok
    /\ \E r \in 1..Len(h_requests) : ~h_requests[r].ok

\* C15 (as claimed): when some but not all chunks fail, the call returns to
\* its search with the largest angle over exactly the samples of the
\* answered chunks, the angle of each taken from its own elevation and its
\* own distance.
C15_PartialFailure ==
    [][ (HorizonReduce /\ PartialFailure) =>
          /\ pc' = ReturnTo(pc)
          /\ terrain_angle' =
                 MaxOf({ AngleOf(ElevationAt(terrain, points[n]) - my_elevation,
                                 distances[n]) : n \in AnsweredPlaces }) ]_vars

-----------------------------------------------------------------------------
\* C16: the requests of one horizon call are, in this order, the points
\* 0..99, 100..199, ... of the ray, each slice asked once whether or not the
\* request succeeds (a slice is never asked again); when the call returns,
\* ceil(N / 100) requests have been made for the N points of the ray.
C16_OneRequestPerChunk ==
    /\ \A k \in 1..Len(h_requests) :
           /\ h_requests[k].start = (k - 1) * chunk_size
           /\ h_requests[k].start < RayLen
           /\ h_requests[k].count =
                  (IF RayLen - h_requests[k].start < chunk_size
                   THEN RayLen - h_requests[k].start ELSE chunk_size)
    /\ pc \in HorizonPcs =>
           /\ Len(points) = RayLen
           /\ chunk_i = Len(h_requests) * chunk_size
    /\ pc \in {"rise_cmp", "set_cmp"} => Len(h_requests) = ChunkCount(RayLen)

\* A call over 201 points has returned after three requests: the first
\* failed, the second was answered, the third asked for the last point.
C16_Witness ==
    /\ pc = "set_cmp"
    /\ RayLen = 201
    /\ Len(h_requests) = 3
    /\ ~h_requests[1].ok
    /\ h_requests[2].ok
    /\ h_requests[3].start = 200
    /\ h_requests[3].count = 1

-----------------------------------------------------------------------------
\* At the head of either loop current_check_time is the standard instant
\* shifted by elapsed, and elapsed is a multiple of step_minutes.
LoopHeadShift ==
    /\ (pc = "set_loop" /\ standard # None) =>
           /\ current_check_time = Std - elapsed
           /\ elapsed % settings.step_minutes = 0
    /\ (pc = "rise_loop" /\ standard # None) =>
           /\ current_check_time = Std + elapsed
           /\ elapsed % settings.step_minutes = 0

\* C17 (as claimed): the loop-head relation holds; a sunset result t has
\* standard - 120 + step_minutes < t <= standard + step_minutes, with
\* t = standard + step_minutes exactly when the sun is above the horizon
\* angle at the standard setting itself; a sunrise result t has
\* standard <= t < standard + 120.
C17_ResultWindow ==
    /\ LoopHeadShift
    /\ (pc = "main_set_ret" /\ standard # None) =>
           /\ Std - 120 + settings.step_minutes < res_set[1]
           /\ res_set[1] <= Std + settings.step_minutes
           /\ (res_set[1] = Std + settings.step_minutes) <=> h_scan_log[1].above
    /\ (pc = "main_rise_ret" /\ standard # None) =>
           /\ Std <= res_rise[1]
           /\ res_rise[1] < Std + 120

\* C17 (amended): the loop-head relation holds; a sunset result t has
\* standard - 120 < t <= standard + step_minutes, and also
\* standard - 120 + step_minutes < t when the sun was found above the
\* horizon angle or step_minutes < 120 (an exhausted scan returns the
\* standard setting, which a step of 120 minutes or more puts at or before
\* standard - 120 + step_minutes); t = standard + step_minutes exactly when
\* the sun is above the horizon angle at the standard setting itself; a
\* sunrise result t has standard <= t < standard + 120.
C17_ResultWindowAmended ==
    /\ LoopHeadShift
    /\ (pc = "main_set_ret" /\ standard # None) =>
           /\ Std - 120 < res_set[1]
           /\ (FoundAtLast \/ settings.step_minutes < 120) =>
                  Std - 120 + settings.step_minutes < res_set[1]
           /\ (AllHidden /\ settings.step_minutes >= 120) =>
                  /\ res_set[1] = Std
                  /\ res_set[1] <= Std - 120 + settings.step_minutes
           /\ res_set[1] <= Std + settings.step_minutes
           /\ (res_set[1] = Std + settings.step_minutes) <=> h_scan_log[1].above
    /\ (pc = "main_rise_ret" /\ standard # None) =>
           /\ Std <= res_rise[1]
           /\ res_rise[1] < Std + 120

\* The ground lies below the observer and the sun, a solar radius under the
\* mathematical horizon at the standard setting, is above the horizon angle
\* there: the sunset returned is one step after the standard setting.
C17_Witness ==
    /\ pc = "main_set_ret"
    /\ standard # None
    /\ LogLen = 1
    /\ h_scan_log[1].above
    /\ terrain_angle < sun_alt
    /\ sun_alt < 0
    /\ res_set = Some(Std + settings.step_minutes)

-----------------------------------------------------------------------------
\* C18: in mode 'both' the sunrise search leaves observer.date at its last
\* sampled instant; the sunset search then starts from local noon whatever
\* it finds there: its standard setting is the first setting after local
\* noon, its scan starts at that instant with nothing elapsed, and what it
\* returns is determined by the day, the settings and the answers it gets
\* (the first sample with the sun above the horizon angle, or none), the
\* same in mode 'both' as in mode 'sunset'.  After setup_observer nothing
\* changes the observer's latitude, longitude or elevation.
C18_SunsetReanchored ==
    /\ (mode = "both" /\ pc \in {"main_set", "set_anchor"} /\ LogLen >= 1) =>
           observer.date = h_scan_log[LogLen].t
    /\ (InSunset /\ standard # None) =>
           /\ Std = NextEvent(eph.set, AnchorUtc(720))
           /\ (pc = "set_loop" /\ LogLen = 0) =>
                  /\ observer.date = AnchorUtc(720)
                  /\ current_check_time = Std
                  /\ elapsed = 0
                  /\ found_time = None
           /\ pc = "main_set_ret" =>
                  res_set = (IF FoundAtLast
                             THEN Some(Std - (LogLen - 2) * settings.step_minutes)
                             ELSE Some(Std))
    /\ observer.lat = ConfigLat
    /\ observer.lon = ConfigLon
    /\ pc # "setup" => observer.elevation = my_elevation

\* Mode 'both' on a day whose sunrise scan ran past the setting: the sunrise
\* returned is later than the standard setting, and the sunset search has
\* put observer.date back to local noon and starts at the setting after it.
C18_Witness ==
    /\ mode = "both"
    /\ pc = "set_loop"
    /\ LogLen = 0
    /\ res_rise # None
    /\ standard # None
    /\ res_rise[1] > Std
    /\ observer.date = AnchorUtc(720)
    /\ current_check_time = NextEvent(eph.set, AnchorUtc(720))

=============================================================================
